---- MODULE Spec2Model ----
(***************************************************************************)
(* EarthDaylightSim: the orbit camera controller, the astronomical model   *)
(* and the frame driver of the three variants of the program:              *)
(*   "basic"  src/unnamed/part_000       (perspective camera, drag only)   *)
(*   "ortho"  src/main.js lines 1-291    (orthographic camera, scene tilt) *)
(*   "persp"  src/main.js lines 294-539  (perspective camera, camera tilt) *)
(*                                                                         *)
(* Numbers.  JavaScript doubles are modelled in fixed point: an angle or a *)
(* length is an integer count of 1/Scale (1e-4 rad, 1e-4 scene units).     *)
(* Pointer coordinates are whole pixels, animation times whole             *)
(* milliseconds, wall-clock instants whole minutes.                        *)
(*                                                                         *)
(* Scope.  The marker and pole visibility toggles (keys t and g, the       *)
(* checkboxes of the persp variant) and the clock widgets of src/time.js   *)
(* touch none of the state below and are left out.                         *)
(***************************************************************************)
EXTENDS Integers, Sequences, FiniteSets, TLC

VARIABLES
    variant,            \* which of the three programs is running
    isDragging,         \* let isDragging
    dragStartX,         \* let dragStartX
    dragStartY,         \* let dragStartY
    cameraTheta,        \* cameraTheta / sphericalCameraAngle.theta
    cameraPhi,          \* cameraPhi / sphericalCameraAngle.phi
    cameraTilt,         \* cameraTilt (persp)
    cameraRoll,         \* camera.rotation.z minus the z rotation lookAt set
    rootRotationX,      \* root.rotation.x (ortho)
    cameraDistance,     \* cameraDistance (ortho) / CameraDistance / cameraDist
    cameraPos,          \* camera.position as <<x, y, z>>
    frustum,            \* camera.left/right/top/bottom (ortho)
    aspect,             \* window.innerWidth / window.innerHeight
    timezone,           \* the host's time zone
    sunToday,           \* what new Date() returned to the last sun sample
    earthUpdates,       \* number of updateEarthRotation calls so far
    sunUpdates,         \* number of updateSunlightAngle calls so far
    earthRotationY,     \* earth.rotation.y
    sunDayOfYear,       \* dayOfYear of the last sun sample
    lightY,             \* directionalLight.position.y
    lastEarthUpdate,    \* lastEarthUpdate / lastYTime
    lastSunlightUpdate, \* lastSunlightUpdate / lastXTime
    tickTime,           \* the time argument of the last animate call
    renderCount,        \* number of renderer.render calls so far
    tickCount,          \* number of animate calls so far
    lastTick,           \* what the last animate call did
    prevEarthSample,    \* the earth sample before the current one
    earthSample,        \* the current earth sample: instant and rotation
    heldKey,            \* the key whose repeated keydown events arrive
    lastEvent,          \* the last input handler that ran, with its deltas
    steps               \* number of input events delivered so far

vars == <<variant, isDragging, dragStartX, dragStartY, cameraTheta, cameraPhi,
          cameraTilt, cameraRoll, rootRotationX, cameraDistance, cameraPos,
          frustum, aspect, timezone, sunToday, earthUpdates, sunUpdates,
          earthRotationY,
          sunDayOfYear, lightY, lastEarthUpdate, lastSunlightUpdate, tickTime, renderCount,
          tickCount, lastTick, prevEarthSample, earthSample, heldKey, lastEvent,
          steps>>

cameraVars == <<isDragging, dragStartX, dragStartY, cameraTheta, cameraPhi,
                cameraTilt, cameraRoll, rootRotationX, cameraDistance,
                cameraPos, frustum, aspect, heldKey, lastEvent, steps>>

frameVars == <<sunToday, earthUpdates, sunUpdates, earthRotationY, sunDayOfYear, lightY,
               lastEarthUpdate, lastSunlightUpdate, tickTime, renderCount,
               tickCount, lastTick, prevEarthSample, earthSample>>

(***************************************************************************)
(* Bounds of the exploration.                                              *)
(***************************************************************************)
MaxSteps == 4
MaxTicks == 4
MaxHours == 3

(***************************************************************************)
(* Fixed-point arithmetic.                                                 *)
(***************************************************************************)
Scale == 100 * 100

Min(a, b) == IF a < b THEN a ELSE b
Max(a, b) == IF a > b THEN a ELSE b

\* a / b rounded to the nearest integer (b > 0)
RDiv(a, b) == (2 * a + b) \div (2 * b)

\* the product of two fixed-point numbers
FMul(a, b) == (a * b + Scale \div 2) \div Scale

PI == 31416
HalfPI == PI \div 2
TwoPI == 2 * PI

\* Taylor polynomials on [0, pi/4]
SinT(x) ==
    LET x2 == FMul(x, x)
        t3 == RDiv(FMul(x, x2), 6)
        t5 == RDiv(FMul(t3, x2), 20)
        t7 == RDiv(FMul(t5, x2), 42)
    IN  x - t3 + t5 - t7

CosT(x) ==
    LET x2 == FMul(x, x)
        c2 == RDiv(x2, 2)
        c4 == RDiv(FMul(c2, x2), 12)
        c6 == RDiv(FMul(c4, x2), 30)
        c8 == RDiv(FMul(c6, x2), 56)
    IN  Scale - c2 + c4 - c6 + c8

\* sine of an angle in the first quadrant
SinQ(r) == IF r <= HalfPI \div 2 THEN SinT(r) ELSE CosT(HalfPI - r)

\* Math.sin
Sin(a) ==
    LET r == a % TwoPI
    IN  IF r <= HalfPI THEN SinQ(r)
        ELSE IF r <= PI THEN SinQ(PI - r)
        ELSE IF r <= PI + HalfPI THEN -SinQ(r - PI)
        ELSE -SinQ(TwoPI - r)

\* Math.cos
Cos(a) == Sin(a + HalfPI)

\* Math.tan, for |a| < pi/2
Tan(a) == RDiv(Sin(a) * Scale, Cos(a))

\* Math.asin for |s| <= 0.5, by its power series
ASin(s) ==
    LET s2 == FMul(s, s)
        a3 == FMul(s, s2)
        a5 == FMul(a3, s2)
        a7 == FMul(a5, s2)
        a9 == FMul(a7, s2)
    IN  s + RDiv(a3, 6) + RDiv(3 * a5, 40) + RDiv(15 * a7, 336)
          + RDiv(105 * a9, 3456)

RECURSIVE SqrtIter(_, _)
SqrtIter(n, r) ==
    LET r2 == (r + n \div r) \div 2
    IN  IF r2 >= r THEN r ELSE SqrtIter(n, r2)

\* floor of the square root of an integer n >= 0
ISqrt(n) == IF n = 0 THEN 0 ELSE SqrtIter(n, n)

\* Math.sqrt of a fixed-point number
Sqrt(x) == ISqrt(x * Scale)

(***************************************************************************)
(* The host's clock and calendar (the JavaScript Date object).  An instant *)
(* is a count of minutes since 2023-01-01T00:00Z, negative before it.  A   *)
(* time zone is a record: std is its standard offset from UTC in minutes   *)
(* at the start of the calendar, dst its daylight-saving rule, and changes *)
(* the sequence of its later changes of standard offset, each the instant  *)
(* `at' from which the offset `to' is in force.                            *)
(***************************************************************************)
EpochYear == 2023
MinutesPerDay == 24 * 60

IsLeap(y) == (y % 4 = 0 /\ y % 100 # 0) \/ y % 400 = 0
DaysInYear(y) == IF IsLeap(y) THEN 366 ELSE 365

\* days from 1 January EpochYear to 1 January y (negative before EpochYear)
RECURSIVE DaysFromEpoch(_)
DaysFromEpoch(y) ==
    IF y = EpochYear THEN 0
    ELSE IF y > EpochYear THEN DaysFromEpoch(y - 1) + DaysInYear(y - 1)
    ELSE DaysFromEpoch(y + 1) - DaysInYear(y)

\* the years of the calendar, and the days from the epoch to each
Years == (EpochYear - 12)..(EpochYear + 3)
YearStarts == [y \in (EpochYear - 13)..(EpochYear + 4) |-> DaysFromEpoch(y)]
DaysBefore(y) == YearStarts[y]

\* the calendar year a local clock reading (minutes since epoch) falls in
YearOf(local) ==
    CHOOSE y \in Years :
        /\ DaysBefore(y) * MinutesPerDay <= local
        /\ local < DaysBefore(y + 1) * MinutesPerDay

\* the first Sunday on or after a day (days since the epoch, a Sunday)
SundayFrom(day) == day + ((7 - (day % 7)) % 7)

\* the first day of a month (3 for March, ...) of year y, in days since the
\* epoch
MonthStart(y, month) ==
    LET leap == IF IsLeap(y) THEN 1 ELSE 0
    IN  DaysBefore(y) + leap + (IF month = 3 THEN 59
                                ELSE IF month = 4 THEN 90
                                ELSE IF month = 10 THEN 273
                                ELSE 304)

\* daylight saving, one hour.  "north" follows the rule of America/New_York:
\* from 02:00 standard time on the second Sunday of March to 01:00 standard
\* time (02:00 daylight time) on the first Sunday of November.  "south"
\* follows the rule of Australia/Sydney: from 02:00 standard time on the
\* first Sunday of October to 02:00 standard time (03:00 daylight time) on
\* the first Sunday of April.
DstShift == 60

\* the standard offset in force at an instant
StdOf(tz, utc) ==
    LET past == {i \in DOMAIN tz.changes : tz.changes[i].at <= utc}
    IN  IF past = {} THEN tz.std
        ELSE tz.changes[CHOOSE i \in past : \A j \in past : j <= i].to

\* the standard offset in force at a local clock reading: the one before
\* the first change that the reading, at that offset, precedes
RECURSIVE StdAtLocal(_, _, _, _)
StdAtLocal(tz, local, i, before) ==
    IF i > Len(tz.changes) THEN before
    ELSE IF local - before < tz.changes[i].at THEN before
    ELSE StdAtLocal(tz, local, i + 1, tz.changes[i].to)

InDst(tz, utc) ==
    LET std == utc + StdOf(tz, utc)
        y   == YearOf(std)
        at(month, week, hour) ==
            (SundayFrom(MonthStart(y, month)) + 7 * (week - 1)) * MinutesPerDay
                + 60 * hour
    IN  IF tz.dst = "north" THEN std >= at(3, 2, 2) /\ std < at(11, 1, 1)
        ELSE IF tz.dst = "south" THEN std < at(4, 1, 2) \/ std >= at(10, 1, 2)
        ELSE FALSE

\* the local clock reading of an instant
LocalOf(tz, utc) ==
    utc + StdOf(tz, utc) + (IF InDst(tz, utc) THEN DstShift ELSE 0)

\* the instant of a local clock reading
UtcOf(tz, local) ==
    LET u == local - StdAtLocal(tz, local, 1, tz.std)
    IN  IF InDst(tz, u - DstShift) THEN u - DstShift ELSE u

\* Date.prototype.getFullYear
getFullYear(tz, utc) == YearOf(LocalOf(tz, utc))

\* the day of the local calendar year an instant falls on, 1 for 1 January
CalendarDay(tz, utc) ==
    LET local == LocalOf(tz, utc)
    IN  (local - DaysBefore(YearOf(local)) * MinutesPerDay) \div MinutesPerDay + 1

\* new Date(year, 0, 0): local midnight of the day before 1 January
StartOfYear(tz, year) == UtcOf(tz, (DaysBefore(year) - 1) * MinutesPerDay)

\* Date.prototype.getUTCHours, getUTCMinutes
getUTCHours(utc) == (utc \div 60) % 24
getUTCMinutes(utc) == utc % 60

(***************************************************************************)
(* Astronomical model.                                                     *)
(***************************************************************************)
GMTOffset == -PI
UpdateInterval == 60
SunlightDistance == 5
SunUpdateSeconds == 3600

\* m * RadPerMinute, RadPerMinute = 2 * PI / 1440
RadPerMinute(m) == RDiv(m * TwoPI, 1440)

\* the value updateEarthRotation / updateRotationY stores in earth.rotation.y
EarthRotationOfAllMinutes(utc) ==
    RadPerMinute(utc % 1440) + (utc \div 1440) * TwoPI + GMTOffset - HalfPI
EarthRotation(utc) ==
    LET UTCMinutes == getUTCHours(utc) * 60 + getUTCMinutes(utc)
    IN  RadPerMinute(UTCMinutes) + GMTOffset - HalfPI

\* Math.floor((time - startOfYear) / (1000 * 60 * 60 * 24))
DayOfYear(tz, utc) ==
    (utc - StartOfYear(tz, getFullYear(tz, utc))) \div MinutesPerDay

\* 0.398 * Math.cos(2 * PI * (dayOfYear - 173) / 365.242)
SunlightSine(dayOfYear) ==
    FMul(3980, Cos(RDiv((dayOfYear - 173) * TwoPI * 50, 18262)))

\* getSunlightAngle (ortho)
getSunlightAngle(tz, utc) == ASin(SunlightSine(DayOfYear(tz, utc)))

\* the y coordinate updateSunlightAngle / updateRotationX gives the light
SunlightY(v, tz, utc) ==
    IF v = "ortho"
    THEN SunlightDistance * Tan(getSunlightAngle(tz, utc))
    ELSE LET sunlightAngleSINE == SunlightSine(DayOfYear(tz, utc))
             sunlightAngleTANGENT ==
                 RDiv(sunlightAngleSINE * Scale,
                      Sqrt(Scale - FMul(sunlightAngleSINE, sunlightAngleSINE)))
         IN  SunlightDistance * sunlightAngleTANGENT

(***************************************************************************)
(* Orbit camera controller.                                                *)
(***************************************************************************)
Variants == {"basic", "ortho", "persp"}

DefaultCameraDistance == 15000
CameraDistance == 22000
MinDistance == 10000
MaxDistance == 100000

\* radians per pixel of pointer movement (0.01)
Sensitivity == 100
\* radians per tilt key event: 0.01 (tiltScene), 0.05 (tiltCamera)
SceneTiltStep == 100
CameraTiltStep == 500

\* the bounds Math.max(Math.min(phi, hi), lo) clamps phi to
PhiLow(v) == IF v = "basic" THEN 1000 ELSE 10
PhiHigh(v) == IF v = "basic" THEN PI - 1000 ELSE PI

ClampPhi(v, phi) == Max(Min(phi, PhiHigh(v)), PhiLow(v))

\* the distance the camera starts at
InitialDistance(v) == IF v = "ortho" THEN DefaultCameraDistance ELSE CameraDistance

\* deltaXRotated, deltaYRotated (persp), in pixels * Scale
RotatedDeltaWrongSign(tilt, deltaX, deltaY) ==
    <<deltaX * Cos(tilt) - deltaY * Sin(tilt),
      deltaX * Sin(tilt) + deltaY * Cos(tilt)>>
RotatedDelta(tilt, deltaX, deltaY) ==
    <<deltaX * Cos(-tilt) - deltaY * Sin(-tilt),
      deltaX * Sin(-tilt) + deltaY * Cos(-tilt)>>

\* deltaX * 0.01 and deltaY * 0.01, of the rotated deltas in the persp
\* variant: what one move adds to theta and takes from phi
AngleDelta(v, tilt, deltaX, deltaY) ==
    IF v = "persp"
    THEN LET r == RotatedDelta(tilt, deltaX, deltaY)
         IN  <<RDiv(r[1] * Sensitivity, Scale), RDiv(r[2] * Sensitivity, Scale)>>
    ELSE <<deltaX * Sensitivity, deltaY * Sensitivity>>

\* the angles <<theta, phi>> after one move that changes them by d
MovedAngles(v, theta, phi, d) ==
    <<theta + d[1], ClampPhi(v, phi - d[2])>>

\* the angles after n such moves (the tilt, and so d, is the same in each):
\* the first half of the moves, then the rest
RECURSIVE MovedAnglesN(_, _, _, _, _)
MovedAnglesN(v, theta, phi, d, n) ==
    IF n = 0 THEN <<theta, phi>>
    ELSE IF n = 1 THEN MovedAngles(v, theta, phi, d)
    ELSE LET a == MovedAnglesN(v, theta, phi, d, n \div 2)
         IN  IF a \in Int \X Int
             THEN MovedAnglesN(v, a[1], a[2], d, n - n \div 2)
             ELSE a

\* the position <<x, y, z>> at distance r, polar angle phi, azimuth theta
ToCartesianSwapped(r, phi, theta) ==
    <<FMul(FMul(r, Sin(phi)), Cos(theta)),
      FMul(FMul(r, Sin(phi)), Sin(theta)),
      FMul(r, Cos(phi))>>
ToCartesian(r, phi, theta) ==
    <<FMul(FMul(r, Sin(phi)), Cos(theta)),
      FMul(r, Cos(phi)),
      FMul(FMul(r, Sin(phi)), Sin(theta))>>

\* tiltScene: the new root.rotation.x
TiltSceneNoClamp(tilt, deltaZ) == tilt + deltaZ * SceneTiltStep
TiltScene(tilt, deltaZ) ==
    Max(Min(tilt + deltaZ * SceneTiltStep, HalfPI), -HalfPI)

\* tiltCamera: the new cameraTilt
TiltCameraNoClamp(tilt, deltaZ) == tilt + deltaZ * CameraTiltStep
TiltCamera(tilt, deltaZ) ==
    Max(Min(tilt + deltaZ * CameraTiltStep, HalfPI), -HalfPI)

\* cameraDistance after the 'z' key and after the 'c' key
ZoomOut(d) == Min(FMul(d, 11000), MaxDistance)
ZoomInNoClamp(d) == FMul(d, 9000)
ZoomIn(d) == Max(FMul(d, 9000), MinDistance)

\* the deltaZ the q and e keys pass to tiltScene / tiltCamera
TiltDelta(key) == IF key = "q" THEN -1 ELSE 1

\* the value one keydown event of key z, c, q or e gives the number x it
\* changes: cameraDistance, root.rotation.x (ortho) or cameraTilt (persp)
KeyStep(v, key, x) ==
    IF key = "z" THEN ZoomOut(x)
    ELSE IF key = "c" THEN ZoomIn(x)
    ELSE IF v = "ortho" THEN TiltScene(x, TiltDelta(key))
    ELSE TiltCamera(x, TiltDelta(key))

\* camera.left, right, top, bottom as handleResize (ortho) sets them
ExtentsStale(d, a) == <<-FMul(DefaultCameraDistance, a), FMul(DefaultCameraDistance, a),
                        DefaultCameraDistance, -DefaultCameraDistance>>
Extents(d, a) == <<-FMul(d, a), FMul(d, a), d, -d>>

(***************************************************************************)
(* Inputs of the exploration.                                              *)
(***************************************************************************)
\* where the pointer can be, <<clientX, clientY>>
Pointers == {<<0, 0>>, <<100, 400>>}
\* how many keydown events one press of a key that moves the camera delivers
MoveKeyRepeats == {1}
\* window.innerWidth / window.innerHeight: 16:9 at load, 1:1 or 16:9 later
InitialAspect == (16 * Scale) \div 9
Aspects == {Scale, InitialAspect}
\* the instant of a UTC clock reading: day 1 of a year is its 1 January
At(year, day, minutes) ==
    (DaysBefore(year) + day - 1) * MinutesPerDay + minutes

\* the hosts' time zones, from 2011 on.  Africa/Tripoli went from UTC+2 to
\* UTC+1 on 2012-11-10T00:00Z and back to UTC+2 on 2013-03-29T00:00Z;
\* Europe/Moscow went from UTC+3 to UTC+4 on 2011-03-26T23:00Z and back to
\* UTC+3 on 2014-10-25T22:00Z.
UTC == [std |-> 0, dst |-> "none", changes |-> <<>>]
NewYork == [std |-> -300, dst |-> "north", changes |-> <<>>]
Sydney == [std |-> 600, dst |-> "south", changes |-> <<>>]
Tripoli == [std |-> 120, dst |-> "none",
            changes |-> <<[at |-> At(2012, 315, 0), to |-> 60],
                          [at |-> At(2013, 88, 0), to |-> 120]>>]
Moscow == [std |-> 180, dst |-> "none",
           changes |-> <<[at |-> At(2011, 85, 23 * 60), to |-> 240],
                         [at |-> At(2014, 298, 22 * 60), to |-> 180]>>]
TimeZones == {UTC, NewYork, Sydney, Tripoli, Moscow}

\* what new Date() can return on a host of each zone.  The program never
\* compares two readings, so a read may return any of them, whatever the
\* animation time and whatever an earlier read returned.
\*   UTC       2023-06-22 12:00, one minute later, one day later
\*   New York  2024-01-01 00:00, 2024-07-01 00:30, 2024-12-31 23:59 local
\*   Sydney    2024-01-01 00:00, 2024-07-01 22:00, 2024-12-31 23:59 local
\*   Tripoli   2012-01-01 00:00, 2012-07-01 14:00, 2012-12-31 23:30 local
\*   Moscow    2014-01-01 00:00, 2014-07-01 16:00, 2014-12-31 23:30 local
ClockReadings(tz) ==
    IF tz = UTC
    THEN {At(2023, 173, 720), At(2023, 173, 721), At(2023, 174, 720)}
    ELSE IF tz = NewYork
    THEN {At(2024, 1, 300), At(2024, 183, 270), At(2025, 1, 299)}
    ELSE IF tz = Sydney
    THEN {At(2023, 365, 780), At(2024, 183, 720), At(2024, 366, 779)}
    ELSE IF tz = Tripoli
    THEN {At(2011, 365, 1320), At(2012, 183, 720), At(2012, 366, 1350)}
    ELSE {At(2013, 365, 1200), At(2014, 182, 720), At(2014, 365, 1230)}

\* the input handlers are explored at one clock reading, in UTC
CameraInstants == {At(2023, 173, 720)}
CameraTimeZones == {UTC}
\* the clock readings of a long run
LongReadings == {At(2023, 173, 720), At(2023, 173, 780)}
\* milliseconds between two animation ticks; the gaps of a long run are
\* the two update intervals themselves and a gap of two sun intervals
HoursMs == 1000 * 60 * 60
LongGaps == {1000 * UpdateInterval, 1000 * SunUpdateSeconds, 2 * HoursMs}
TickGaps == {16, 1000 * UpdateInterval, 1000 * UpdateInterval + 1,
             1000 * SunUpdateSeconds + 1}

(***************************************************************************)
(* The state after the module body has run.                                *)
(***************************************************************************)
\* The module body calls
\* updateEarthRotation and then updateSunlightAngle, each with its own
\* new Date().
InitAt(zones, readings) ==
    /\ variant \in Variants
    /\ isDragging = FALSE
    /\ dragStartX = 0
    /\ dragStartY = 0
    /\ cameraTheta = HalfPI
    /\ cameraPhi = HalfPI
    /\ cameraTilt = 0
    /\ cameraRoll = 0
    /\ rootRotationX = 0
    /\ cameraDistance = InitialDistance(variant)
    /\ cameraPos = <<0, 0, InitialDistance(variant)>>
    /\ aspect = InitialAspect
    /\ frustum = IF variant = "ortho"
                 THEN Extents(DefaultCameraDistance, InitialAspect)
                 ELSE <<0, 0, 0, 0>>
    /\ timezone \in zones
    /\ earthSample \in {[at |-> now, rotation |-> EarthRotation(now)] :
                            now \in readings}
    /\ prevEarthSample = earthSample
    /\ earthRotationY = earthSample.rotation
    /\ earthUpdates = 1
    /\ sunToday \in readings
    /\ sunDayOfYear = DayOfYear(timezone, sunToday)
    /\ lightY = SunlightY(variant, timezone, sunToday)
    /\ sunUpdates = 1
    /\ lastEarthUpdate = 0
    /\ lastSunlightUpdate = 0
    /\ tickTime = 0
    /\ renderCount = 0
    /\ tickCount = 0
    /\ lastTick = [earth |-> FALSE, sun |-> FALSE]
    /\ heldKey = "none"
    /\ lastEvent = [name |-> "load", dx |-> 0, dy |-> 0, n |-> 0]
    /\ steps = 0

Init == \E tz \in TimeZones : InitAt({tz}, ClockReadings(tz))
InitCamera == InitAt(CameraTimeZones, CameraInstants)
InitLong == InitAt(CameraTimeZones, LongReadings)

(***************************************************************************)
(* Input handlers.  lastEvent records the handler and, for a handler that  *)
(* moves the camera, the deltas it passed and how many times.              *)
(***************************************************************************)
\* the exploration delivers at most MaxSteps input events
CanDeliver == steps < MaxSteps

Delivered(name, dx, dy, n) ==
    /\ steps' = steps + 1
    /\ lastEvent' = [name |-> name, dx |-> dx, dy |-> dy, n |-> n]

\* moveSphericCamera(deltaX, deltaY) called n times in a row (ortho, persp);
\* the body of handleMouseMove after the deltas are taken (basic)
moveSphericCamera(deltaX, deltaY, n) ==
    LET d == AngleDelta(variant, cameraTilt, deltaX, deltaY)
        a == IF d \in Int \X Int
             THEN MovedAnglesN(variant, cameraTheta, cameraPhi, d, n)
             ELSE <<cameraTheta, cameraPhi>>
    IN  /\ cameraTheta' = a[1]
        /\ cameraPhi' = a[2]
        /\ cameraPos' = ToCartesian(cameraDistance, a[2], a[1])
        /\ cameraRoll' = IF variant = "persp" THEN cameraTilt ELSE cameraRoll

handleMouseDownBody(x, y) ==
    /\ CanDeliver
    /\ isDragging' = TRUE
    /\ dragStartX' = x
    /\ dragStartY' = y
    /\ Delivered("mousedown", 0, 0, 0)
    /\ UNCHANGED <<cameraTheta, cameraPhi, cameraTilt, cameraRoll,
                   rootRotationX, cameraDistance, cameraPos, frustum, aspect>>

handleMouseUpBody ==
    /\ CanDeliver
    /\ isDragging' = FALSE
    /\ Delivered("mouseup", 0, 0, 0)
    /\ UNCHANGED <<dragStartX, dragStartY, cameraTheta, cameraPhi, cameraTilt,
                   cameraRoll, rootRotationX, cameraDistance, cameraPos,
                   frustum, aspect>>

handleMouseMoveAlways(x, y) ==
    /\ CanDeliver
    /\ dragStartX' = x
    /\ dragStartY' = y
    /\ moveSphericCamera(x - dragStartX, y - dragStartY, 1)
    /\ Delivered("mousemove", x - dragStartX, y - dragStartY, 1)
    /\ UNCHANGED <<isDragging, cameraTilt, rootRotationX, cameraDistance,
                   frustum, aspect>>
handleMouseMoveBody(x, y) ==
    IF ~isDragging
    THEN /\ CanDeliver
         /\ Delivered("mousemove", 0, 0, 0)
         /\ UNCHANGED <<isDragging, dragStartX, dragStartY, cameraTheta,
                        cameraPhi, cameraTilt, cameraRoll, rootRotationX,
                        cameraDistance, cameraPos, frustum, aspect>>
    ELSE /\ CanDeliver
         /\ dragStartX' = x
         /\ dragStartY' = y
         /\ moveSphericCamera(x - dragStartX, y - dragStartY, 1)
         /\ Delivered("mousemove", x - dragStartX, y - dragStartY, 1)
         /\ UNCHANGED <<isDragging, cameraTilt, rootRotationX, cameraDistance,
                        frustum, aspect>>

handleMouseDown(x, y) ==
    handleMouseDownBody(x, y) /\ UNCHANGED <<heldKey, variant, timezone,
                   frameVars>>
handleMouseUp ==
    handleMouseUpBody /\ UNCHANGED <<heldKey, variant, timezone,
                   frameVars>>
handleMouseMove(x, y) ==
    handleMouseMoveBody(x, y) /\ UNCHANGED <<heldKey, variant, timezone,
                   frameVars>>

\* the touch handlers exist in the ortho variant only
handleTouchStart(x, y) ==
    /\ variant = "ortho"
    /\ handleMouseDownBody(x, y)
    /\ UNCHANGED <<heldKey, variant, timezone,
                   frameVars>>
handleTouchEnd ==
    /\ variant = "ortho"
    /\ handleMouseUpBody
    /\ UNCHANGED <<heldKey, variant, timezone,
                   frameVars>>
handleTouchMove(x, y) ==
    /\ variant = "ortho"
    /\ handleMouseMoveBody(x, y)
    /\ UNCHANGED <<heldKey, variant, timezone,
                   frameVars>>

\* handleResize: the window's size has changed to aspect ratio a
handleResize(a) ==
    /\ CanDeliver
    /\ aspect' = a
    /\ frustum' = IF variant = "ortho" THEN Extents(cameraDistance, a) ELSE frustum
    /\ Delivered("resize", 0, 0, 0)
    /\ UNCHANGED <<isDragging, dragStartX, dragStartY, cameraTheta, cameraPhi,
                   cameraTilt, cameraRoll, rootRotationX, cameraDistance,
                   cameraPos>>
    /\ UNCHANGED <<heldKey, variant, timezone,
                   frameVars>>

\* the polar and azimuth angle resetCamera restores (PI / 2)
ResetAngleWrong == PI
ResetAngle == HalfPI

\* the position resetCamera gives the camera
ResetPosition(v) == <<0, 0, InitialDistance(v)>>

\* the deltas the w, s, a, d (and arrow) keys pass to moveSphericCamera
KeyDelta(key) ==
    IF key = "w" THEN <<0, 1>>
    ELSE IF key = "s" THEN <<0, -1>>
    ELSE IF key = "a" THEN <<1, 0>>
    ELSE <<-1, 0>>

\* tiltCamera: camera.rotation.z -= cameraTilt, then += the new cameraTilt
RollAfterTiltStacked(roll, tilt, tilted) == roll + tilted
RollAfterTilt(roll, tilt, tilted) == (roll - tilt) + tilted

\* handleKeyDown, keys q and e: one keydown event
keyTiltBody(key) ==
    /\ IF variant = "ortho"
       THEN /\ rootRotationX' = KeyStep(variant, key, rootRotationX)
            /\ UNCHANGED <<cameraTilt, cameraRoll>>
       ELSE LET tilted == KeyStep(variant, key, cameraTilt)
            IN  /\ cameraTilt' = tilted
                /\ cameraRoll' = RollAfterTilt(cameraRoll, cameraTilt, tilted)
                /\ UNCHANGED rootRotationX
    /\ lastEvent' = [name |-> key, dx |-> 0, dy |-> 0, n |-> 0]
    /\ UNCHANGED <<isDragging, dragStartX, dragStartY, cameraTheta, cameraPhi,
                   cameraDistance, cameraPos, frustum, aspect>>
    /\ UNCHANGED <<variant, timezone, frameVars>>

\* handleKeyDown (ortho), keys z and c: one keydown event
keyZoomBody(key) ==
    /\ LET d == KeyStep(variant, key, cameraDistance)
       IN  /\ cameraDistance' = d
           /\ frustum' = Extents(d, aspect)
    /\ lastEvent' = [name |-> key, dx |-> 0, dy |-> 0, n |-> 0]
    /\ UNCHANGED <<isDragging, dragStartX, dragStartY, cameraTheta, cameraPhi,
                   cameraTilt, cameraRoll, rootRotationX, cameraPos, aspect>>
    /\ UNCHANGED <<variant, timezone, frameVars>>

\* the key goes down: it is released at once, or it stays down and its
\* keydown event will repeat; the exploration counts a press that is held
\* as two steps
Pressed(key, held) ==
    /\ held => steps + 2 <= MaxSteps
    /\ heldKey' = IF held THEN key ELSE "none"
    /\ steps' = IF held THEN steps + 2 ELSE steps + 1

\* the first keydown event of a press of q or e
keyTilt(key, held) ==
    /\ CanDeliver
    /\ variant \in {"ortho", "persp"}
    /\ keyTiltBody(key)
    /\ Pressed(key, held)

\* the first keydown event of a press of z or c
keyZoom(key, held) ==
    /\ CanDeliver
    /\ variant = "ortho"
    /\ keyZoomBody(key)
    /\ Pressed(key, held)

\* the held key repeats: one more keydown event of that key.  Other events
\* may arrive between two of them; the hold ends when another key goes
\* down.  These events are not counted in steps: the clamps of the tilt
\* and of the distance bound what one hold can reach.
keyRepeat ==
    /\ heldKey # "none"
    /\ IF heldKey \in {"q", "e"} THEN keyTiltBody(heldKey)
       ELSE keyZoomBody(heldKey)
    /\ UNCHANGED <<heldKey, steps>>

\* handleKeyDown, keys w, s, a, d (and the arrow keys), delivered n times
keyMove(key, n) ==
    /\ CanDeliver
    /\ variant \in {"ortho", "persp"}
    /\ moveSphericCamera(KeyDelta(key)[1], KeyDelta(key)[2], n)
    /\ Delivered(key, KeyDelta(key)[1], KeyDelta(key)[2], n)
    /\ heldKey' = "none"
    /\ UNCHANGED <<isDragging, dragStartX, dragStartY, cameraTilt,
                   rootRotationX, cameraDistance, frustum, aspect>>
    /\ UNCHANGED <<variant, timezone, frameVars>>

\* key r: resetCamera(), and handleResize() in the ortho variant
keyReset ==
    /\ CanDeliver
    /\ variant \in {"ortho", "persp"}
    /\ cameraDistance' = InitialDistance(variant)
    /\ cameraPos' = ResetPosition(variant)
    /\ cameraRoll' = 0
    /\ cameraTilt' = 0
    /\ cameraTheta' = ResetAngle
    /\ cameraPhi' = ResetAngle
    /\ frustum' = IF variant = "ortho"
                  THEN Extents(InitialDistance(variant), aspect)
                  ELSE frustum
    /\ Delivered("r", 0, 0, 0)
    /\ heldKey' = "none"
    /\ UNCHANGED <<isDragging, dragStartX, dragStartY, rootRotationX, aspect>>
    /\ UNCHANGED <<variant, timezone, frameVars>>

\* key f: align with the equator (ortho), reset the camera tilt (persp)
keyAlignEquator ==
    /\ CanDeliver
    /\ variant \in {"ortho", "persp"}
    /\ IF variant = "ortho"
       THEN /\ rootRotationX' = 0
            /\ UNCHANGED <<cameraTilt, cameraRoll>>
       ELSE /\ cameraRoll' = cameraRoll - cameraTilt
            /\ cameraTilt' = 0
            /\ UNCHANGED rootRotationX
    /\ Delivered("f", 0, 0, 0)
    /\ heldKey' = "none"
    /\ UNCHANGED <<isDragging, dragStartX, dragStartY, cameraTheta, cameraPhi,
                   cameraDistance, cameraPos, frustum, aspect>>
    /\ UNCHANGED <<variant, timezone, frameVars>>

\* key v (ortho): align with the ecliptic
keyAlignEcliptic(now) ==
    /\ CanDeliver
    /\ variant = "ortho"
    /\ rootRotationX' = getSunlightAngle(timezone, now)
    /\ Delivered("v", 0, 0, 0)
    /\ heldKey' = "none"
    /\ UNCHANGED <<isDragging, dragStartX, dragStartY, cameraTheta, cameraPhi,
                   cameraTilt, cameraRoll, cameraDistance, cameraPos, frustum,
                   aspect>>
    /\ UNCHANGED <<variant, timezone, frameVars>>

(***************************************************************************)
(* Frame driver.                                                           *)
(***************************************************************************)
\* time - lastEarthUpdate > 1000 * UpdateInterval
EarthDueAtInterval(time, last) == time - last >= 1000 * UpdateInterval
EarthDue(time, last) == time - last > 1000 * UpdateInterval

\* time - lastSunlightUpdate > 1000 * 3600
SunDue(time, last) == time - last > 1000 * SunUpdateSeconds

\* the number of renderer.render calls of one tick
RendersOnResample(earthDue, sunDue) == IF earthDue \/ sunDue THEN 1 ELSE 0
Renders(earthDue, sunDue) == 1

\* lastEarthUpdate = time, lastSunlightUpdate = time inside the if
StampAlways(due, time, last) == time
Stamp(due, time, last) == IF due THEN time ELSE last

\* animate(time), time = tickTime + gap.  now is what new Date() returns
\* to updateEarthRotation and today what it returns to updateSunlightAngle,
\* when the tick calls them; the clock is the host's and is not tied to
\* the animation time.
animateStep(gap, now, today) ==
    LET time == tickTime + gap
        earthDue == EarthDue(time, lastEarthUpdate)
        sunDue == SunDue(time, lastSunlightUpdate)
    IN  /\ tickTime' = time
        /\ earthRotationY' = IF earthDue THEN EarthRotation(now) ELSE earthRotationY
        /\ earthUpdates' = IF earthDue THEN earthUpdates + 1 ELSE earthUpdates
        /\ lastEarthUpdate' = Stamp(earthDue, time, lastEarthUpdate)
        /\ sunToday' = IF sunDue THEN today ELSE sunToday
        /\ sunDayOfYear' = IF sunDue THEN DayOfYear(timezone, today) ELSE sunDayOfYear
        /\ lightY' = IF sunDue THEN SunlightY(variant, timezone, today) ELSE lightY
        /\ sunUpdates' = IF sunDue THEN sunUpdates + 1 ELSE sunUpdates
        /\ lastSunlightUpdate' = Stamp(sunDue, time, lastSunlightUpdate)
        /\ renderCount' = renderCount + Renders(earthDue, sunDue)
        /\ tickCount' = tickCount + 1
        /\ lastTick' = [earth |-> earthDue, sun |-> sunDue]
        /\ earthSample' = IF earthDue
                          THEN [at |-> now, rotation |-> EarthRotation(now)]
                          ELSE earthSample
        /\ prevEarthSample' = IF earthDue THEN earthSample ELSE prevEarthSample
        /\ UNCHANGED <<variant, timezone, cameraVars>>

\* a tick of the bounded exploration
animate(gap, now, today) ==
    tickCount < MaxTicks /\ animateStep(gap, now, today)

\* a tick of a long run, which ends once MaxHours have passed
animateLong(gap, now, today) ==
    tickTime < MaxHours * HoursMs /\ animateStep(gap, now, today)

(***************************************************************************)
(* Specifications.  The input handlers and the frame driver write disjoint *)
(* state, so each is explored on its own: SpecCamera delivers input        *)
(* events, SpecFrame delivers animation ticks, Spec delivers both.         *)
(***************************************************************************)
NextCamera ==
    \/ \E p \in Pointers : handleMouseDown(p[1], p[2])
    \/ handleMouseUp
    \/ \E p \in Pointers : handleMouseMove(p[1], p[2])
    \/ \E p \in Pointers : handleTouchStart(p[1], p[2])
    \/ handleTouchEnd
    \/ \E p \in Pointers : handleTouchMove(p[1], p[2])
    \/ \E a \in Aspects : handleResize(a)
    \/ \E key \in {"q", "e"}, held \in BOOLEAN : keyTilt(key, held)
    \/ \E key \in {"w", "s", "a", "d"}, n \in MoveKeyRepeats : keyMove(key, n)
    \/ \E key \in {"z", "c"}, held \in BOOLEAN : keyZoom(key, held)
    \/ keyRepeat
    \/ keyReset
    \/ keyAlignEquator
    \/ \E now \in CameraInstants : keyAlignEcliptic(now)

\* A tick reads the clock only for the model it resamples: the reading of
\* a sample that is not due is not drawn.
EarthReads(gap, readings) ==
    IF EarthDue(tickTime + gap, lastEarthUpdate) THEN readings
    ELSE {earthSample.at}
SunReads(gap, readings) ==
    IF SunDue(tickTime + gap, lastSunlightUpdate) THEN readings
    ELSE {sunToday}

NextFrame ==
    \E gap \in TickGaps :
        \E now \in EarthReads(gap, ClockReadings(timezone)),
           today \in SunReads(gap, ClockReadings(timezone)) :
            animate(gap, now, today)

Next == NextCamera \/ NextFrame

SpecCamera == InitCamera /\ [][NextCamera]_vars
SpecFrame == Init /\ [][NextFrame]_vars
Spec == Init /\ [][Next]_vars

\* A long run: setAnimationLoop keeps calling animate, at irregular gaps,
\* until the run ends.  The steps that advance tickTime are the steps of
\* NextLong, and one is possible exactly while the run has not ended.
NextLong ==
    \E gap \in LongGaps :
        \E now \in EarthReads(gap, LongReadings),
           today \in SunReads(gap, LongReadings) :
            animateLong(gap, now, today)
TickArrives ==
    /\ tickTime < MaxHours * HoursMs
    /\ \E gap \in LongGaps : tickTime' = tickTime + gap
SpecLong == InitLong /\ [][NextLong]_vars /\ WF_tickTime(TickArrives)

(***************************************************************************)
(* Properties.                                                             *)
(***************************************************************************)

\* C1: for any sequence of drags and key moves the polar angle phi stays
\* strictly inside (0, pi): it is never exactly 0 and never exactly pi, in
\* every variant.
C1_PhiNeverAtPole == cameraPhi > 0 /\ cameraPhi < PI

\* C2: in the ortho variant, after any sequence of zoom-out, zoom-in and
\* reset keys, cameraDistance stays within [1, 10].
C2_DistanceWithinLimits ==
    variant = "ortho" => cameraDistance >= 1 * Scale /\ cameraDistance <= 10 * Scale

\* a held zoom-out key has driven cameraDistance to its upper limit
C2_ZoomOutAtLimit ==
    variant = "ortho" /\ lastEvent.name = "z" /\ cameraDistance = 10 * Scale

\* C3: every animation tick issues exactly one render call, whatever it
\* resampled.
C3_OneRenderPerTick ==
    [][tickCount' # tickCount => renderCount' = renderCount + 1]_vars

\* a tick that resampled nothing, after a tick that resampled the planet
C3_IdleTickRendered ==
    tickCount >= 2 /\ ~lastTick.earth /\ ~lastTick.sun /\ lastEarthUpdate > 0

\* C4: both timestamps start at 0; a tick at time t resamples the planet
\* exactly when t - lastEarthUpdate > 60000 and then sets lastEarthUpdate to
\* t, resamples the sun exactly when t - lastSunlightUpdate > 3600000 and
\* then sets lastSunlightUpdate to t; neither resample touches the other
\* timestamp, and two successive resamples of one model are more than its
\* interval apart.
C4_ResampleTimestamps ==
    /\ (tickCount = 0 => lastEarthUpdate = 0 /\ lastSunlightUpdate = 0)
    /\ [][tickCount' # tickCount =>
            /\ lastTick'.earth = (tickTime' - lastEarthUpdate > 60000)
            /\ earthUpdates' = earthUpdates +
                   (IF tickTime' - lastEarthUpdate > 60000 THEN 1 ELSE 0)
            /\ lastEarthUpdate' = IF lastTick'.earth THEN tickTime'
                                  ELSE lastEarthUpdate
            /\ lastTick'.sun = (tickTime' - lastSunlightUpdate > 3600000)
            /\ sunUpdates' = sunUpdates +
                   (IF tickTime' - lastSunlightUpdate > 3600000 THEN 1 ELSE 0)
            /\ lastSunlightUpdate' = IF lastTick'.sun THEN tickTime'
                                     ELSE lastSunlightUpdate
            /\ (lastTick'.earth => lastEarthUpdate' - lastEarthUpdate > 60000)
            /\ (lastTick'.sun =>
                    lastSunlightUpdate' - lastSunlightUpdate > 3600000)
         ]_vars

\* the planet was resampled by a tick that left the sun's timestamp, set by
\* an earlier tick, alone
C4_EarthAloneAfterSun ==
    /\ lastTick.earth /\ ~lastTick.sun
    /\ lastSunlightUpdate > 0
    /\ lastEarthUpdate > lastSunlightUpdate

\* C5 as stated: the reset key restores theta = phi = pi/2, tilt = 0 (the
\* camera tilt and the scene-root tilt alike) and the default distance.
C5_ResetRestoresEveryTilt ==
    lastEvent.name = "r" =>
        /\ cameraTheta = HalfPI /\ cameraPhi = HalfPI
        /\ cameraTilt = 0 /\ rootRotationX = 0
        /\ cameraDistance = (IF variant = "ortho" THEN 15000 ELSE 22000)

\* C5 amended: the reset key restores theta = phi = pi/2, the camera tilt
\* cameraTilt = 0 and the default distance; the scene-root tilt
\* root.rotation.x of the ortho variant is left as it was.
C5_ResetRestoresCamera ==
    /\ [](lastEvent.name = "r" =>
            /\ cameraTheta = HalfPI /\ cameraPhi = HalfPI
            /\ cameraTilt = 0
            /\ cameraDistance = (IF variant = "ortho" THEN 15000 ELSE 22000))
    /\ [][lastEvent'.name = "r" => rootRotationX' = rootRotationX]_vars

\* the ortho variant was reset while the scene root was tilted
C5_ResetWithTiltedScene ==
    variant = "ortho" /\ lastEvent.name = "r" /\ rootRotationX # 0

\* C6: after reset the camera is at (0, 0, defaultDistance), which is what
\* the spherical-to-Cartesian conversion gives for theta = phi = pi/2, so a
\* zero-delta move right after reset leaves the position unchanged.
C6_ResetPositionRoundTrip ==
    /\ [](lastEvent.name = "r" =>
            /\ cameraPos = <<0, 0, IF variant = "ortho" THEN 15000 ELSE 22000>>
            /\ cameraPos = ToCartesian(cameraDistance, cameraPhi, cameraTheta))
    /\ [][(/\ lastEvent.name = "r"
           /\ lastEvent'.name = "mousemove" /\ lastEvent'.n = 1
           /\ lastEvent'.dx = 0 /\ lastEvent'.dy = 0)
          => cameraPos' = cameraPos]_vars

\* the camera was reset in the middle of a drag, so that a zero-delta move
\* can follow
C6_ResetDuringDrag ==
    lastEvent.name = "r" /\ isDragging /\ steps < MaxSteps

\* C7: the tilt stays within [-pi/2, pi/2] in every reachable state, the
\* scene-root tilt of the ortho variant and the camera tilt of the persp
\* variant alike.
C7_TiltWithinQuarterTurn ==
    /\ -HalfPI <= rootRotationX /\ rootRotationX <= HalfPI
    /\ -HalfPI <= cameraTilt /\ cameraTilt <= HalfPI

\* a held 'e' key has tilted the scene root up to its limit
C7_SceneTiltAtLimit ==
    variant = "ortho" /\ lastEvent.name = "e" /\ rootRotationX = HalfPI

\* C8: the planet rotation is utcMinutes * (2 pi / 1440) - pi - pi/2 for the
\* UTC minute of day of its sample, and two samples a whole number of days
\* apart set the same rotation.
C8_RotationPeriodic ==
    /\ earthRotationY = earthSample.rotation
    /\ earthSample.rotation =
           RDiv((earthSample.at % 1440) * 2 * PI, 1440) - PI - HalfPI
    /\ ((earthSample.at - prevEarthSample.at) % 1440 = 0
            => earthSample.rotation = prevEarthSample.rotation)

\* the planet was resampled exactly one day after its previous sample
C8_SampledOneDayApart ==
    tickCount >= 2 /\ earthSample.at = prevEarthSample.at + 1440

\* C9: in the persp variant a move by (dx, dy) under camera tilt t changes
\* theta and phi as the zero-tilt update does for the delta rotated by -t,
\* (dx cos t + dy sin t, dy cos t - dx sin t): under tilt pi/2 as the move
\* by (dy, -dx), under tilt -pi/2 as the move by (-dy, dx), and under tilt 0
\* as the raw delta.
C9_TiltRotatesDrag ==
    [][(variant = "persp" /\ steps' # steps /\ lastEvent'.n = 1) =>
        LET dx == lastEvent'.dx
            dy == lastEvent'.dy
            ZeroTilt(ddx, ddy) ==
                <<cameraTheta + ddx * 100,
                  Max(Min(cameraPhi - ddy * 100, PI), 10)>>
            t == cameraTilt
        IN  /\ cameraTheta' = cameraTheta
                    + RDiv((dx * Cos(t) + dy * Sin(t)) * 100, Scale)
            /\ cameraPhi' = Max(Min(cameraPhi
                    - RDiv((dy * Cos(t) - dx * Sin(t)) * 100, Scale), PI), 10)
            /\ cameraTilt = HalfPI =>
                <<cameraTheta', cameraPhi'>> = ZeroTilt(dy, -dx)
            /\ cameraTilt = -HalfPI =>
                <<cameraTheta', cameraPhi'>> = ZeroTilt(-dy, dx)
            /\ cameraTilt = 0 =>
                <<cameraTheta', cameraPhi'>> = ZeroTilt(dx, dy)
      ]_vars

\* a drag was applied while the camera tilt was pi/2
C9_DragAtQuarterTilt ==
    /\ variant = "persp" /\ cameraTilt = HalfPI
    /\ lastEvent.name = "mousemove" /\ lastEvent.n = 1
    /\ lastEvent.dx # 0 /\ lastEvent.dy # 0

\* C10: in the ortho variant, after every zoom or reset key the view-volume
\* extents are -d*aspect, d*aspect, d, -d for the current cameraDistance d,
\* and a zoom key leaves the camera position, theta and phi unchanged.
C10_ZoomRescalesProjection ==
    /\ []((variant = "ortho" /\ lastEvent.name \in {"z", "c", "r"}) =>
            frustum = <<-FMul(cameraDistance, aspect),
                        FMul(cameraDistance, aspect),
                        cameraDistance, -cameraDistance>>)
    /\ [][lastEvent'.name \in {"z", "c"} =>
            /\ cameraPos' = cameraPos
            /\ cameraTheta' = cameraTheta
            /\ cameraPhi' = cameraPhi]_vars

\* a zoom-out after the camera was moved away from its start position
C10_ZoomAfterMove ==
    /\ variant = "ortho" /\ lastEvent.name = "z"
    /\ cameraDistance # 15000
    /\ cameraPos # <<0, 0, 15000>>

\* C11: the day of year every sun sample derives from its clock reading
\* lies in 1..366; a reading on 1 January of the local calendar gives 1,
\* and a reading on 31 December gives 365, or 366 in a leap year.
C11_DayOfYearInRange ==
    LET year == getFullYear(timezone, sunToday)
        day == CalendarDay(timezone, sunToday)
    IN  /\ sunDayOfYear \in 1..366
        /\ day = 1 => sunDayOfYear = 1
        /\ day = DaysInYear(year) => sunDayOfYear = DaysInYear(year)

\* C12: a pointer move received while isDragging is false leaves theta, phi,
\* the camera position and the recorded pointer position unchanged; a move
\* received during a drag updates theta and phi by the delta from the
\* recorded pointer position to the new one, places the camera at the new
\* angles, and records the new position and the delta it applied.
C12_MoveOnlyDuringDrag ==
    [][(lastEvent'.name = "mousemove" /\ steps' # steps) =>
        IF ~isDragging
        THEN UNCHANGED <<cameraTheta, cameraPhi, cameraPos, dragStartX,
                         dragStartY, isDragging>>
        ELSE LET dx == dragStartX' - dragStartX
                 dy == dragStartY' - dragStartY
                 a == MovedAngles(variant, cameraTheta, cameraPhi,
                                  AngleDelta(variant, cameraTilt, dx, dy))
             IN  /\ <<dragStartX', dragStartY'>> \in Pointers
                 /\ <<lastEvent'.dx, lastEvent'.dy>> = <<dx, dy>>
                 /\ <<cameraTheta', cameraPhi'>> = a
                 /\ cameraPos' = ToCartesian(cameraDistance, a[2], a[1])
                 /\ isDragging']_vars

\* a pointer move arrived after a drag started away from the origin had ended
C12_MoveAfterPointerUp ==
    /\ lastEvent.name = "mousemove"
    /\ lastEvent.n = 0
    /\ ~isDragging
    /\ <<dragStartX, dragStartY>> # <<0, 0>>

\* C13: in the persp variant the roll the camera carries on top of its
\* look-at orientation equals cameraTilt in every reachable state, whatever
\* the order of drags, moves, tilts, tilt resets and camera resets.
C13_RollEqualsTilt == variant = "persp" => cameraRoll = cameraTilt

\* the camera was tilted again after it had been tilted and moved
C13_TiltedMovedTilted ==
    /\ variant = "persp"
    /\ lastEvent.name \in {"q", "e"}
    /\ steps = MaxSteps
    /\ cameraPos # ResetPosition(variant)
    /\ cameraTilt \notin {0, CameraTiltStep, -CameraTiltStep, HalfPI, -HalfPI}

\* C14: ticks keep arriving, at whatever gaps, until the run ends; while
\* they do, every state whose planet rotation was not sampled by the tick
\* just taken, and was last sampled more than one update interval before
\* the end of the run, is followed by a tick that resamples it, and
\* likewise the sun elevation with the sun interval; a tick resamples each
\* model at most once, stamping it with the tick's own time, so that the
\* tick after a long gap does not catch up.
C14_ResampledAgainAndAgain ==
    /\ (tickTime < MaxHours * HoursMs) ~> (tickTime >= MaxHours * HoursMs)
    /\ (/\ ~(lastTick.earth /\ lastEarthUpdate = tickTime)
        /\ lastEarthUpdate < MaxHours * HoursMs - 1000 * UpdateInterval)
            ~> (lastTick.earth /\ lastEarthUpdate = tickTime)
    /\ (/\ ~(lastTick.sun /\ lastSunlightUpdate = tickTime)
        /\ lastSunlightUpdate < MaxHours * HoursMs - 1000 * SunUpdateSeconds)
            ~> (lastTick.sun /\ lastSunlightUpdate = tickTime)
    /\ [][/\ tickCount' = tickCount + 1
          /\ lastEarthUpdate' = IF lastTick'.earth THEN tickTime'
                                 ELSE lastEarthUpdate
          /\ lastSunlightUpdate' = IF lastTick'.sun THEN tickTime'
                                    ELSE lastSunlightUpdate
          /\ earthUpdates' = earthUpdates + (IF lastTick'.earth THEN 1 ELSE 0)
          /\ sunUpdates' = sunUpdates + (IF lastTick'.sun THEN 1 ELSE 0)
          /\ (lastTick.earth /\ tickTime' - tickTime <= 1000 * UpdateInterval)
                => ~lastTick'.earth
          /\ (lastTick.sun /\ tickTime' - tickTime <= 1000 * SunUpdateSeconds)
                => ~lastTick'.sun]_vars

\* the first tick arrived after a gap of several sun intervals and
\* resampled both models once, and a tick one sun interval later did not
\* resample the sun
C14_NoCatchUpAfterLongGap ==
    /\ tickCount = 2
    /\ tickTime = 2 * HoursMs + 1000 * SunUpdateSeconds
    /\ lastSunlightUpdate = 2 * HoursMs
    /\ sunUpdates = 2
    /\ earthUpdates = 3
    /\ lastEarthUpdate = tickTime
    /\ ~lastTick.sun
====
